---------------------------- MODULE Spec2Model ----------------------------
(***************************************************************************)
(* WT13106Connection (Sync VDC/src/WT13106Connection.cpp): one connection  *)
(* object, the operating system's serial port behind it, and the callers'  *)
(* sequence of public calls.                                               *)
(*                                                                         *)
(* A std::string is a sequence of one-character strings; the empty string  *)
(* is << >>.  m_lastError is a sequence of string pieces, so that a        *)
(* message built with operator+ is the concatenation of its pieces.        *)
(***************************************************************************)
EXTENDS Integers, Sequences, FiniteSets, TLC

VARIABLES
    platform,            \* the build: "posix" (#else branches) or "win32" (#ifdef _WIN32)
    alive,               \* FALSE once the destructor has run
    m_connectionString,
    m_connectionType,
    m_isConnected,
    m_lastError,
    m_vid,
    m_pid,
    m_portName,
    m_serialFd,          \* m_serialFd / m_serialHandle; Invalid when not open
    osOpen,              \* descriptors the operating system holds open for the process
    rx,                  \* bytes pending in the serial port's receive queue
    osTimeout,           \* read timeout in effect on the port, in milliseconds
    closeErr,            \* TRUE once close() was issued on a descriptor that is not open
    op,                  \* the step that ran last: a public call, or the device sending
    arg,                 \* its command argument
    argTimeout,          \* its timeoutMs argument
    ret,                 \* its bool return value
    resp,                \* its std::vector<uint8_t> return value
    trace,               \* the transport calls it issued, in order, with their results
    lastConnect,         \* history: result of the most recent connect()
    discSince,           \* history: a disconnect() has run since the most recent connect()
    connOk,              \* history: a connect() returned true and no disconnect() ran since
    reparsed,            \* history: the last call ran parseConnectionString(), and not for the first time
    pc                   \* two threads on the object: where each stands inside its call

vars == << platform, alive, m_connectionString, m_connectionType, m_isConnected,
           m_lastError, m_vid, m_pid, m_portName, m_serialFd, osOpen, rx, osTimeout,
           closeErr, op, arg, argTimeout, ret, resp, trace, lastConnect, discSince,
           connOk, reparsed, pc >>

-----------------------------------------------------------------------------
(* Bounds of the model *)

MaxPending == 1

(* Program constants *)

BufferSize == 1024
Invalid == -1
FirstFd == 3

Bytes == {1, 2}
Timeouts == {50, 1000}
Platforms == {"posix", "win32"}

BLUETOOTH == "BLUETOOTH"
USB == "USB"

\* no call is in progress on either thread
Idle == [disc |-> "idle", send |-> "idle", sendSaw |-> "idle", closedSince |-> FALSE]

-----------------------------------------------------------------------------
(* std::string helpers *)

Min(a, b) == IF a < b THEN a ELSE b

\* std::string::substr(pos, n) with pos <= size()
substr(str, pos, n) == SubSeq(str, pos + 1, Min(Len(str), pos + n))

\* substr(pos + 1): the first character after pos is dropped too
substrFrom_SkipsOne(str, pos) == SubSeq(str, pos + 2, Len(str))

\* std::string::substr(pos) with pos <= size()
substrFrom(str, pos) == SubSeq(str, pos + 1, Len(str))

\* std::string::find(ch): 0-based index of the first occurrence, npos (-1 here) if none
npos == -1
find(str, ch) ==
    IF \E i \in 1..Len(str) : str[i] = ch
    THEN (CHOOSE i \in 1..Len(str) : str[i] = ch /\ \A j \in 1..(i - 1) : str[j] # ch) - 1
    ELSE npos

\* find(prefix) != npos: the prefix is found anywhere in the string
startsWith_Anywhere(str, prefix) ==
    \E i \in 1..(Len(str) - Len(prefix) + 1) : SubSeq(str, i, i + Len(prefix) - 1) = prefix

\* std::string::find(prefix) == 0
startsWith(str, prefix) ==
    Len(str) >= Len(prefix) /\ SubSeq(str, 1, Len(prefix)) = prefix

HexLower == << "0", "1", "2", "3", "4", "5", "6", "7", "8", "9", "a", "b", "c", "d", "e", "f" >>
HexUpper == << "0", "1", "2", "3", "4", "5", "6", "7", "8", "9", "A", "B", "C", "D", "E", "F" >>

isxdigit(c) == \E i \in 1..16 : HexLower[i] = c \/ HexUpper[i] = c
HexVal(c) == (CHOOSE i \in 1..16 : HexLower[i] = c \/ HexUpper[i] = c) - 1
isspace(c) == c \in {" ", "\t", "\n", "\r"}

\* unsigned long is 64 bits on the LP64 builds and 32 bits on Windows:
\* the largest number of significant hexadecimal digits that fits
ULongHexDigits == IF platform = "win32" THEN 8 ELSE 16

RECURSIVE SkipSpace(_)
SkipSpace(str) ==
    IF str # << >> /\ isspace(Head(str)) THEN SkipSpace(Tail(str)) ELSE str

\* the longest prefix of hexadecimal digits: [n = digits consumed,
\* sig = significant digits, val = value modulo 2^16]
RECURSIVE HexRun(_, _, _, _)
HexRun(str, n, sig, val) ==
    IF str # << >> /\ isxdigit(Head(str))
    THEN HexRun(Tail(str), n + 1,
                IF sig = 0 /\ HexVal(Head(str)) = 0 THEN 0 ELSE sig + 1,
                (val * 16 + HexVal(Head(str))) % 65536)
    ELSE [n |-> n, sig |-> sig, val |-> val]

\* static_cast<uint16_t>(std::stoul(str, nullptr, 16)): leading white space, an
\* optional sign, an optional 0x, then the longest run of hexadecimal digits;
\* what follows the run is ignored.  ok = FALSE is std::invalid_argument (no
\* digit) or std::out_of_range (the value does not fit unsigned long).
stoul16(str) ==
    LET a == SkipSpace(str)
        neg == a # << >> /\ Head(a) = "-"
        b == IF a # << >> /\ Head(a) \in {"+", "-"} THEN Tail(a) ELSE a
        c == IF Len(b) >= 3 /\ b[1] = "0" /\ b[2] \in {"x", "X"} /\ isxdigit(b[3])
             THEN SubSeq(b, 3, Len(b)) ELSE b
        r == HexRun(c, 0, 0, 0)
    IN  IF r.n = 0 \/ r.sig > ULongHexDigits
        THEN [ok |-> FALSE, val |-> 0]
        ELSE [ok |-> TRUE, val |-> IF neg THEN (65536 - r.val) % 65536 ELSE r.val]

-----------------------------------------------------------------------------
(* The object's members together with the operating system's side of the   *)
(* port, as one record that the member functions transform.                *)

Cur ==
    [ m_connectionType |-> m_connectionType, m_isConnected |-> m_isConnected,
      m_lastError |-> m_lastError, m_vid |-> m_vid, m_pid |-> m_pid,
      m_portName |-> m_portName, m_serialFd |-> m_serialFd,
      osOpen |-> osOpen, rx |-> rx, osTimeout |-> osTimeout, closeErr |-> closeErr,
      ret |-> FALSE, resp |-> << >>, trace |-> << >> ]

Called(s, name, result) == [s EXCEPT !.trace = Append(@, << name, result >>)]

\* return false without recording the message
Fail_NoMessage(s, msg) == [s EXCEPT !.ret = FALSE]

Fail(s, msg) == [s EXCEPT !.m_lastError = msg, !.ret = FALSE]

\* open() / CreateFileA hand out the lowest descriptor that is not in use
NewFd(open) == CHOOSE fd \in FirstFd..(FirstFd + Cardinality(open)) :
                   fd \notin open /\ \A g \in FirstFd..(fd - 1) : g \in open

\* close() forgotten: the call is not made
OsClose_Forgotten(s, fd) == s

\* close(fd) / CloseHandle(h): the descriptor leaves the table and its queue is dropped
OsClose(s, fd) ==
    [Called(s, IF platform = "win32" THEN "CloseHandle" ELSE "close", fd)
        EXCEPT !.osOpen = @ \ {fd},
               !.closeErr = @ \/ fd \notin s.osOpen,
               !.rx = << >>,
               !.osTimeout = 0]

\* m_portName += instead of m_portName =: the port name of an earlier parse stays
parseConnectionString_AppendsPort(s0) ==
    LET s == Called(s0, "parseConnectionString", 0) IN
    IF m_connectionString = << >>
    THEN Fail(s, << "Connection string is empty" >>)
    ELSE IF substr(m_connectionString, 0, 3) = << "B", "T", ":" >>
    THEN LET s1 == [s EXCEPT !.m_connectionType = BLUETOOTH,
                             !.m_portName = @ \o substrFrom(m_connectionString, 3)]
         IN  IF s1.m_portName = << >>
             THEN Fail(s1, << "Invalid Bluetooth connection string format. Use 'BT:COM5' or 'BT:/dev/ttyUSB0'" >>)
             ELSE [s1 EXCEPT !.ret = TRUE]
    ELSE IF substr(m_connectionString, 0, 4) = << "U", "S", "B", ":" >>
    THEN LET s1 == [s EXCEPT !.m_connectionType = USB]
             usbParams == substrFrom(m_connectionString, 4)
             colonPos == find(usbParams, ":")
             vid == stoul16(substr(usbParams, 0, colonPos))
             pid == stoul16(substrFrom(usbParams, colonPos + 1))
         IN  IF colonPos = npos
             THEN Fail(s1, << "Invalid USB connection string format. Use 'USB:VID:PID' (e.g., 'USB:1234:5678')" >>)
             ELSE IF ~vid.ok
             THEN Fail(s1, << "Invalid VID/PID format. Use hexadecimal (e.g., 'USB:1234:5678')" >>)
             ELSE IF ~pid.ok
             THEN Fail([s1 EXCEPT !.m_vid = vid.val],
                       << "Invalid VID/PID format. Use hexadecimal (e.g., 'USB:1234:5678')" >>)
             ELSE [s1 EXCEPT !.m_vid = vid.val, !.m_pid = pid.val, !.ret = TRUE]
    ELSE IF startsWith(m_connectionString, << "C", "O", "M" >>)
            \/ startsWith(m_connectionString, << "/", "d", "e", "v", "/" >>)
    THEN [s EXCEPT !.m_connectionType = BLUETOOTH,
                   !.m_portName = m_connectionString,
                   !.ret = TRUE]
    ELSE Fail(s, << "Unknown connection string format. Use 'BT:COM5' for Bluetooth or 'USB:1234:5678' for USB" >>)

parseConnectionString(s0) ==
    LET s == Called(s0, "parseConnectionString", 0) IN
    IF m_connectionString = << >>
    THEN Fail(s, << "Connection string is empty" >>)
    ELSE IF substr(m_connectionString, 0, 3) = << "B", "T", ":" >>
    THEN LET s1 == [s EXCEPT !.m_connectionType = BLUETOOTH,
                             !.m_portName = substrFrom(m_connectionString, 3)]
         IN  IF s1.m_portName = << >>
             THEN Fail(s1, << "Invalid Bluetooth connection string format. Use 'BT:COM5' or 'BT:/dev/ttyUSB0'" >>)
             ELSE [s1 EXCEPT !.ret = TRUE]
    ELSE IF substr(m_connectionString, 0, 4) = << "U", "S", "B", ":" >>
    THEN LET s1 == [s EXCEPT !.m_connectionType = USB]
             usbParams == substrFrom(m_connectionString, 4)
             colonPos == find(usbParams, ":")
             vid == stoul16(substr(usbParams, 0, colonPos))
             pid == stoul16(substrFrom(usbParams, colonPos + 1))
         IN  IF colonPos = npos
             THEN Fail(s1, << "Invalid USB connection string format. Use 'USB:VID:PID' (e.g., 'USB:1234:5678')" >>)
             ELSE IF ~vid.ok
             THEN Fail(s1, << "Invalid VID/PID format. Use hexadecimal (e.g., 'USB:1234:5678')" >>)
             ELSE IF ~pid.ok
             THEN Fail([s1 EXCEPT !.m_vid = vid.val],
                       << "Invalid VID/PID format. Use hexadecimal (e.g., 'USB:1234:5678')" >>)
             ELSE [s1 EXCEPT !.m_vid = vid.val, !.m_pid = pid.val, !.ret = TRUE]
    ELSE IF startsWith(m_connectionString, << "C", "O", "M" >>)
            \/ startsWith(m_connectionString, << "/", "d", "e", "v", "/" >>)
    THEN [s EXCEPT !.m_connectionType = BLUETOOTH,
                   !.m_portName = m_connectionString,
                   !.ret = TRUE]
    ELSE Fail(s, << "Unknown connection string format. Use 'BT:COM5' for Bluetooth or 'USB:1234:5678' for USB" >>)

\* e: what the operating system answers: e.open, e.getattr, e.setattr,
\* e.settimeout (BOOLEAN: the call succeeds), e.err (GetLastError())
initializeBluetooth(s, e) ==
    IF platform = "win32"
    THEN LET h == IF e.open THEN NewFd(s.osOpen) ELSE Invalid
             s1 == [Called(s, "CreateFileA", h)
                       EXCEPT !.m_serialFd = h,
                              !.osOpen = IF e.open THEN @ \cup {h} ELSE @]
             s2 == Called(s1, "GetCommState", IF e.getattr THEN 1 ELSE 0)
             s3 == Called(s2, "SetCommState", IF e.setattr THEN 1 ELSE 0)
             s4 == [Called(s3, "SetCommTimeouts", IF e.settimeout THEN 1 ELSE 0)
                       EXCEPT !.osTimeout = IF e.settimeout THEN 50 ELSE @]
         IN  IF h = Invalid
             THEN Fail(s1, << "Failed to open COM port: " >> \o s.m_portName
                           \o << " (Error: ", ToString(e.err), ")" >>)
             ELSE IF ~e.getattr
             THEN Fail([OsClose(s2, s2.m_serialFd) EXCEPT !.m_serialFd = Invalid],
                       << "Failed to get COM port state" >>)
             ELSE IF ~e.setattr
             THEN Fail([OsClose(s3, s3.m_serialFd) EXCEPT !.m_serialFd = Invalid],
                       << "Failed to set COM port state" >>)
             ELSE [s4 EXCEPT !.ret = TRUE]
    ELSE LET fd == IF e.open THEN NewFd(s.osOpen) ELSE Invalid
             s1 == [Called(s, "open", fd)
                       EXCEPT !.m_serialFd = fd,
                              !.osOpen = IF e.open THEN @ \cup {fd} ELSE @]
             s2 == Called(s1, "tcgetattr", IF e.getattr THEN 0 ELSE -1)
             s3 == Called(s2, "tcsetattr", IF e.setattr THEN 0 ELSE -1)
         IN  IF fd < 0
             THEN Fail(s1, << "Failed to open serial port: " >> \o s.m_portName)
             ELSE IF ~e.getattr
             THEN Fail([OsClose(s2, s2.m_serialFd) EXCEPT !.m_serialFd = Invalid],
                       << "Failed to get serial port attributes" >>)
             ELSE IF ~e.setattr
             THEN Fail([OsClose(s3, s3.m_serialFd) EXCEPT !.m_serialFd = Invalid],
                       << "Failed to set serial port attributes" >>)
             ELSE [s3 EXCEPT !.osTimeout = 100, !.ret = TRUE]

\* the device is taken as found
initializeUSB_Succeeds(s, e) == [s EXCEPT !.ret = TRUE]

\* e.enum: SetupDiGetClassDevs returns a device list
initializeUSB(s, e) ==
    IF platform = "win32"
    THEN IF ~e.enum
         THEN Fail(Called(s, "SetupDiGetClassDevs", Invalid),
                   << "Failed to enumerate USB devices" >>)
         ELSE Fail(Called(s, "SetupDiGetClassDevs", 1),
                   << "USB device not found (VID: ", ToString(s.m_vid),
                      ", PID: ", ToString(s.m_pid), ")" >>)
    ELSE Fail(s, << "USB connection requires libusb. Install with: sudo apt-get install libusb-1.0-0-dev" >>)

\* connect() without the already-connected guard
connect_NoConnectedCheck(s, e) ==
    LET p == parseConnectionString(s)
        i == IF p.m_connectionType = BLUETOOTH
             THEN initializeBluetooth(p, e)
             ELSE initializeUSB(p, e)
    IN  IF ~p.ret
        THEN p
        ELSE IF i.ret
        THEN [i EXCEPT !.m_isConnected = TRUE, !.m_lastError = << >>]
        ELSE i

\* connect() that goes on to open the transport after a failed parse
connect_IgnoresParseFailure(s, e) ==
    IF s.m_isConnected
    THEN Fail(s, << "Already connected" >>)
    ELSE LET p == parseConnectionString(s)
             i == IF p.m_connectionType = BLUETOOTH
                  THEN initializeBluetooth(p, e)
                  ELSE initializeUSB(p, e)
         IN  IF i.ret
             THEN [i EXCEPT !.m_isConnected = TRUE, !.m_lastError = << >>]
             ELSE i

\* connect() that marks the object connected whatever the open returned
connect_IgnoresOpenFailure(s, e) ==
    IF s.m_isConnected
    THEN Fail(s, << "Already connected" >>)
    ELSE LET p == parseConnectionString(s)
             i == IF p.m_connectionType = BLUETOOTH
                  THEN initializeBluetooth(p, e)
                  ELSE initializeUSB(p, e)
         IN  IF ~p.ret
             THEN p
             ELSE [i EXCEPT !.m_isConnected = TRUE, !.m_lastError = << >>, !.ret = TRUE]

connect(s, e) ==
    IF s.m_isConnected
    THEN Fail(s, << "Already connected" >>)
    ELSE LET p == parseConnectionString(s)
             i == IF p.m_connectionType = BLUETOOTH
                  THEN initializeBluetooth(p, e)
                  ELSE initializeUSB(p, e)
         IN  IF ~p.ret
             THEN p
             ELSE IF i.ret
             THEN [i EXCEPT !.m_isConnected = TRUE, !.m_lastError = << >>]
             ELSE i

\* cleanupConnection() that leaves the handle alone
cleanupConnection_NoClose(s) == s

cleanupConnection(s) ==
    IF s.m_connectionType = BLUETOOTH
    THEN IF s.m_serialFd # Invalid
         THEN [OsClose(s, s.m_serialFd) EXCEPT !.m_serialFd = Invalid]
         ELSE s
    ELSE s

\* disconnect() that forgets m_isConnected = false
disconnect_StaysConnected(s) ==
    IF ~s.m_isConnected
    THEN Fail(s, << "Not connected" >>)
    ELSE [cleanupConnection(s) EXCEPT !.m_lastError = << >>, !.ret = TRUE]

\* disconnect() without the not-connected guard
disconnect_NoConnectedCheck(s) ==
    [cleanupConnection(s) EXCEPT !.m_isConnected = FALSE,
                                 !.m_lastError = << >>,
                                 !.ret = TRUE]

disconnect(s) ==
    IF ~s.m_isConnected
    THEN Fail(s, << "Not connected" >>)
    ELSE [cleanupConnection(s) EXCEPT !.m_isConnected = FALSE,
                                      !.m_lastError = << >>,
                                      !.ret = TRUE]

\* sendCommand() without the not-connected guard
sendCommand_NoConnectedCheck(s, command, w) ==
    IF command = << >>
    THEN Fail(s, << "Command is empty" >>)
    ELSE LET s1 == Called(s, IF platform = "win32" THEN "WriteFile" ELSE "write", w)
         IN  IF w < 0
             THEN Fail(s1, << "Failed to write to serial port" >>)
             ELSE IF w # Len(command)
             THEN Fail(s1, << "Partial write to serial port" >>)
             ELSE [s1 EXCEPT !.m_lastError = << >>, !.ret = TRUE]

\* sendCommand() without the empty-command guard
sendCommand_NoEmptyCheck(s, command, w) ==
    IF ~s.m_isConnected
    THEN Fail(s, << "Not connected to device" >>)
    ELSE LET s1 == Called(s, IF platform = "win32" THEN "WriteFile" ELSE "write", w)
         IN  IF w < 0
             THEN Fail(s1, << "Failed to write to serial port" >>)
             ELSE IF w # Len(command)
             THEN Fail(s1, << "Partial write to serial port" >>)
             ELSE [s1 EXCEPT !.m_lastError = << >>, !.ret = TRUE]

\* a short write is followed by a second write of the remaining bytes
sendCommand_Resends(s, command, w) ==
    IF ~s.m_isConnected
    THEN Fail(s, << "Not connected to device" >>)
    ELSE IF command = << >>
    THEN Fail(s, << "Command is empty" >>)
    ELSE IF s.m_connectionType = BLUETOOTH
    THEN LET name == IF platform = "win32" THEN "WriteFile" ELSE "write"
             s1 == Called(s, name, w)
         IN  IF w < 0
             THEN Fail(s1, << "Failed to write to serial port" >>)
             ELSE IF w # Len(command)
             THEN [Called(s1, name, Len(command) - w) EXCEPT !.m_lastError = << >>, !.ret = TRUE]
             ELSE [s1 EXCEPT !.m_lastError = << >>, !.ret = TRUE]
    ELSE Fail(s, << "USB send not fully implemented" >>)

\* a failed write tears the connection down
sendCommand_DropsOnError(s, command, w) ==
    IF ~s.m_isConnected
    THEN Fail(s, << "Not connected to device" >>)
    ELSE IF command = << >>
    THEN Fail(s, << "Command is empty" >>)
    ELSE IF s.m_connectionType = BLUETOOTH
    THEN LET s1 == Called(s, IF platform = "win32" THEN "WriteFile" ELSE "write", w)
         IN  IF w < 0
             THEN Fail([s1 EXCEPT !.m_isConnected = FALSE], << "Failed to write to serial port" >>)
             ELSE IF w # Len(command)
             THEN Fail(s1, << "Partial write to serial port" >>)
             ELSE [s1 EXCEPT !.m_lastError = << >>, !.ret = TRUE]
    ELSE Fail(s, << "USB send not fully implemented" >>)

\* the bytesWritten != command.size() test left out: a short write counts as sent
sendCommand_AcceptsShortWrite(s, command, w) ==
    IF ~s.m_isConnected
    THEN Fail(s, << "Not connected to device" >>)
    ELSE IF command = << >>
    THEN Fail(s, << "Command is empty" >>)
    ELSE IF s.m_connectionType = BLUETOOTH
    THEN LET s1 == Called(s, IF platform = "win32" THEN "WriteFile" ELSE "write", w)
         IN  IF w < 0
             THEN Fail(s1, << "Failed to write to serial port" >>)
             ELSE [s1 EXCEPT !.m_lastError = << >>, !.ret = TRUE]
    ELSE Fail(s, << "USB send not fully implemented" >>)

\* w: what the operating system answers to the write: -1 (the call fails) or
\* the number of bytes it accepted
sendCommand(s, command, w) ==
    IF ~s.m_isConnected
    THEN Fail(s, << "Not connected to device" >>)
    ELSE IF command = << >>
    THEN Fail(s, << "Command is empty" >>)
    ELSE IF s.m_connectionType = BLUETOOTH
    THEN LET s1 == Called(s, IF platform = "win32" THEN "WriteFile" ELSE "write", w)
         IN  IF w < 0
             THEN Fail(s1, << "Failed to write to serial port" >>)
             ELSE IF w # Len(command)
             THEN Fail(s1, << "Partial write to serial port" >>)
             ELSE [s1 EXCEPT !.m_lastError = << >>, !.ret = TRUE]
    ELSE Fail(s, << "USB send not fully implemented" >>)

ERROR_IO_PENDING == 997
ERROR_ACCESS_DENIED == 5
ERROR_FILE_NOT_FOUND == 2

\* what does not fit the buffer is dropped from the queue
receiveResponse_FlushesRest(s, timeoutMs, e) ==
    IF ~s.m_isConnected
    THEN [s EXCEPT !.m_lastError = << "Not connected to device" >>, !.resp = << >>]
    ELSE IF s.m_connectionType = BLUETOOTH
    THEN IF platform = "win32"
         THEN LET s1 == [Called(s, "SetCommTimeouts", IF e.settimeout THEN 1 ELSE 0)
                            EXCEPT !.osTimeout = IF e.settimeout THEN timeoutMs ELSE @]
                  s2 == IF e.read >= 0
                        THEN Called(s1, "ReadFile", e.read)
                        ELSE Called(Called(s1, "ReadFile", e.read), "GetLastError", e.err)
              IN  IF e.read >= 0
                  THEN [s2 EXCEPT !.resp = SubSeq(s.rx, 1, e.read),
                                  !.rx = << >>]
                  ELSE IF e.err # ERROR_IO_PENDING
                  THEN [s2 EXCEPT !.m_lastError = << "Failed to read from serial port" >>,
                                  !.resp = << >>]
                  ELSE [s2 EXCEPT !.resp = << >>]
         ELSE LET s1 == Called(s, "tcgetattr", IF e.getattr THEN 0 ELSE -1)
                  \* c_cc[VTIME] is an unsigned char counting tenths of a second
                  s2 == IF e.getattr
                        THEN [Called(s1, "tcsetattr", IF e.setattr THEN 0 ELSE -1)
                                 EXCEPT !.osTimeout =
                                     IF e.setattr THEN ((timeoutMs \div 100) % 256) * 100 ELSE @]
                        ELSE s1
                  s3 == Called(s2, "read", e.read)
              IN  IF e.read > 0
                  THEN [s3 EXCEPT !.resp = SubSeq(s.rx, 1, e.read),
                                  !.rx = << >>]
                  ELSE IF e.read < 0
                  THEN [s3 EXCEPT !.m_lastError = << "Failed to read from serial port" >>,
                                  !.resp = << >>]
                  ELSE [s3 EXCEPT !.resp = << >>]
    ELSE [s EXCEPT !.m_lastError = << "USB receive not fully implemented" >>, !.resp = << >>]

\* e.getattr, e.setattr, e.settimeout: the attribute calls succeed; e.read: -1
\* (the read fails, with GetLastError() = e.err on Windows) or the bytes read
receiveResponse(s, timeoutMs, e) ==
    IF ~s.m_isConnected
    THEN [s EXCEPT !.m_lastError = << "Not connected to device" >>, !.resp = << >>]
    ELSE IF s.m_connectionType = BLUETOOTH
    THEN IF platform = "win32"
         THEN LET s1 == [Called(s, "SetCommTimeouts", IF e.settimeout THEN 1 ELSE 0)
                            EXCEPT !.osTimeout = IF e.settimeout THEN timeoutMs ELSE @]
                  s2 == IF e.read >= 0
                        THEN Called(s1, "ReadFile", e.read)
                        ELSE Called(Called(s1, "ReadFile", e.read), "GetLastError", e.err)
              IN  IF e.read >= 0
                  THEN [s2 EXCEPT !.resp = SubSeq(s.rx, 1, e.read),
                                  !.rx = SubSeq(s.rx, e.read + 1, Len(s.rx))]
                  ELSE IF e.err # ERROR_IO_PENDING
                  THEN [s2 EXCEPT !.m_lastError = << "Failed to read from serial port" >>,
                                  !.resp = << >>]
                  ELSE [s2 EXCEPT !.resp = << >>]
         ELSE LET s1 == Called(s, "tcgetattr", IF e.getattr THEN 0 ELSE -1)
                  \* c_cc[VTIME] is an unsigned char counting tenths of a second
                  s2 == IF e.getattr
                        THEN [Called(s1, "tcsetattr", IF e.setattr THEN 0 ELSE -1)
                                 EXCEPT !.osTimeout =
                                     IF e.setattr THEN ((timeoutMs \div 100) % 256) * 100 ELSE @]
                        ELSE s1
                  s3 == Called(s2, "read", e.read)
              IN  IF e.read > 0
                  THEN [s3 EXCEPT !.resp = SubSeq(s.rx, 1, e.read),
                                  !.rx = SubSeq(s.rx, e.read + 1, Len(s.rx))]
                  ELSE IF e.read < 0
                  THEN [s3 EXCEPT !.m_lastError = << "Failed to read from serial port" >>,
                                  !.resp = << >>]
                  ELSE [s3 EXCEPT !.resp = << >>]
    ELSE [s EXCEPT !.m_lastError = << "USB receive not fully implemented" >>, !.resp = << >>]

\* sendCommandAndReceive() that reads whatever the send returned
sendCommandAndReceive_ReceivesAnyway(s, command, timeoutMs, w, e) ==
    receiveResponse(sendCommand(s, command, w), timeoutMs, e)

sendCommandAndReceive(s, command, timeoutMs, w, e) ==
    LET sent == sendCommand(s, command, w)
    IN  IF ~sent.ret
        THEN [sent EXCEPT !.resp = << >>]
        ELSE receiveResponse(sent, timeoutMs, e)

\* a destructor that does not disconnect
destroy_NoDisconnect(s) == s

\* ~WT13106Connection()
destroy(s) == IF s.m_isConnected THEN disconnect(s) ELSE s

-----------------------------------------------------------------------------
(* What the operating system may answer *)

\* a read takes at most BufferSize bytes from the front of the queue, at least
\* one when the queue is not empty, or fails
ReadResults(s) ==
    {-1} \cup (IF s.rx = << >> THEN {0} ELSE 1..Min(Len(s.rx), BufferSize))

\* the answers to connect()'s calls; an answer the code never asks for (a call
\* after the one that failed, another platform's call) is fixed to TRUE
OpenEnv ==
    { e \in [open : BOOLEAN, getattr : BOOLEAN, setattr : BOOLEAN, settimeout : BOOLEAN,
             enum : BOOLEAN, err : {ERROR_FILE_NOT_FOUND, ERROR_ACCESS_DENIED}] :
        /\ ~e.open => e.getattr
        /\ ~(e.open /\ e.getattr) => e.setattr
        /\ ~(e.open /\ e.getattr /\ e.setattr /\ platform = "win32") => e.settimeout
        /\ ~(~e.open /\ platform = "win32") => e.err = ERROR_FILE_NOT_FOUND
        /\ ~(platform = "win32" /\ e.open /\ e.getattr /\ e.setattr /\ e.settimeout)
               => e.enum }

\* the answers to receiveResponse()'s calls, fixed likewise where never asked for
ReadEnv(s) ==
    { e \in [getattr : BOOLEAN, setattr : BOOLEAN, settimeout : BOOLEAN,
             read : ReadResults(s), err : {ERROR_IO_PENDING, ERROR_ACCESS_DENIED}] :
        /\ platform = "win32" => e.getattr
        /\ ~(platform = "posix" /\ e.getattr) => e.setattr
        /\ platform = "posix" => e.settimeout
        /\ ~(platform = "win32" /\ e.read < 0) => e.err = ERROR_ACCESS_DENIED }

\* the answers when no read is issued
NoRead == [getattr |-> TRUE, setattr |-> TRUE, settimeout |-> TRUE, read |-> -1,
           err |-> ERROR_ACCESS_DENIED]

\* the commands the callers send
Commands == {<< >>, << 1 >>, << 1, 2 >>}

-----------------------------------------------------------------------------
(* Connection strings the callers construct objects from *)

ConnStrings ==
    { << >>,
      << "B", "T", ":", "C", "O", "M", "5" >>,
      << "B", "T", ":" >>,
      << "U", "S", "B", ":", "1", "2", "3", "4", ":", "5", "6", "7", "8" >>,
      << "U", "S", "B", ":", "Z", "Z", "Z", "Z", ":", "0", "0", "0", "1" >>,
      << "U", "S", "B", ":", "1", "2", "Z", "Z", ":", "0", "0", "0", "1" >>,
      << "U", "S", "B", ":", "1", "2", "3", "4", "5", ":", "1" >>,
      << "U", "S", "B", ":", "1", "2", "3", "4" >>,
      << "U", "S", "B", ":", ":", "1" >>,
      << "C", "O", "M", "3" >>,
      << "f", "o", "o" >> }

-----------------------------------------------------------------------------
(* The state machine *)

\* WT13106Connection::WT13106Connection(connectionString)
Init ==
    /\ platform \in Platforms
    /\ alive = TRUE
    /\ m_connectionString \in ConnStrings
    /\ m_connectionType = BLUETOOTH
    /\ m_isConnected = FALSE
    /\ m_lastError = << >>
    /\ m_vid = 0
    /\ m_pid = 0
    /\ m_portName = << >>
    /\ m_serialFd = Invalid
    /\ osOpen = {}
    /\ rx = << >>
    /\ osTimeout = 0
    /\ closeErr = FALSE
    /\ op = "constructor"
    /\ arg = << >>
    /\ argTimeout = 0
    /\ ret = FALSE
    /\ resp = << >>
    /\ trace = << >>
    /\ lastConnect = "none"
    /\ reparsed = FALSE
    /\ pc = Idle
    /\ discSince = FALSE
    /\ connOk = FALSE

\* the members and the port after a member function returned r
Commit(r) ==
    /\ m_connectionType' = r.m_connectionType
    /\ m_isConnected' = r.m_isConnected
    /\ m_lastError' = r.m_lastError
    /\ m_vid' = r.m_vid
    /\ m_pid' = r.m_pid
    /\ m_portName' = r.m_portName
    /\ m_serialFd' = r.m_serialFd
    /\ osOpen' = r.osOpen
    /\ rx' = r.rx
    /\ osTimeout' = r.osTimeout
    /\ closeErr' = r.closeErr
    /\ resp' = r.resp
    /\ trace' = r.trace
    /\ UNCHANGED << platform, m_connectionString >>

Connect ==
    /\ alive
    /\ \E e \in OpenEnv :
         LET r == connect(Cur, e)
         IN  /\ Commit(r)
             /\ ret' = r.ret
             /\ lastConnect' = IF r.ret THEN "true" ELSE "false"
             /\ connOk' = (r.ret \/ connOk)
             /\ reparsed' = (/\ lastConnect # "none"
                             /\ \E i \in DOMAIN r.trace : r.trace[i][1] = "parseConnectionString")
    /\ op' = "connect"
    /\ UNCHANGED pc
    /\ arg' = << >>
    /\ argTimeout' = 0
    /\ discSince' = FALSE
    /\ UNCHANGED alive

Disconnect ==
    /\ alive
    /\ LET r == disconnect(Cur)
       IN  Commit(r) /\ ret' = r.ret
    /\ op' = "disconnect"
    /\ UNCHANGED pc
    /\ arg' = << >>
    /\ argTimeout' = 0
    /\ discSince' = TRUE
    /\ connOk' = FALSE
    /\ reparsed' = FALSE
    /\ UNCHANGED << alive, lastConnect >>

SendCommand ==
    /\ alive
    /\ \E command \in Commands : \E w \in -1..Len(command) :
         /\ LET r == sendCommand(Cur, command, w)
            IN  Commit(r) /\ ret' = r.ret
         /\ arg' = command
    /\ op' = "sendCommand"
    /\ UNCHANGED pc
    /\ argTimeout' = 0
    /\ reparsed' = FALSE
    /\ UNCHANGED << alive, lastConnect, discSince, connOk >>

ReceiveResponse ==
    /\ alive
    /\ \E timeoutMs \in Timeouts, e \in ReadEnv(Cur) :
         /\ Commit(receiveResponse(Cur, timeoutMs, e))
         /\ argTimeout' = timeoutMs
    /\ op' = "receiveResponse"
    /\ UNCHANGED pc
    /\ arg' = << >>
    /\ ret' = FALSE
    /\ reparsed' = FALSE
    /\ UNCHANGED << alive, lastConnect, discSince, connOk >>

SendCommandAndReceive ==
    /\ alive
    /\ \E command \in Commands, timeoutMs \in Timeouts : \E w \in -1..Len(command) :
         /\ \E e \in (IF sendCommand(Cur, command, w).ret THEN ReadEnv(Cur) ELSE {NoRead}) :
                Commit(sendCommandAndReceive(Cur, command, timeoutMs, w, e))
         /\ arg' = command
         /\ argTimeout' = timeoutMs
    /\ op' = "sendCommandAndReceive"
    /\ UNCHANGED pc
    /\ ret' = FALSE
    /\ reparsed' = FALSE
    /\ UNCHANGED << alive, lastConnect, discSince, connOk >>

\* the object goes out of scope
Destroy ==
    /\ alive
    /\ alive' = FALSE
    /\ Commit(destroy(Cur))
    /\ op' = "destructor"
    /\ UNCHANGED pc
    /\ arg' = << >>
    /\ argTimeout' = 0
    /\ ret' = FALSE
    /\ discSince' = (discSince \/ m_isConnected)
    /\ connOk' = (connOk /\ ~m_isConnected)
    /\ reparsed' = FALSE
    /\ UNCHANGED lastConnect

\* the device puts one more byte on the line of the open port
DeviceSend ==
    /\ alive
    /\ osOpen # {}
    /\ Len(rx) < MaxPending
    /\ \E b \in Bytes : rx' = Append(rx, b)
    /\ op' = "deviceSend"
    /\ UNCHANGED pc
    /\ arg' = << >>
    /\ argTimeout' = 0
    /\ ret' = FALSE
    /\ resp' = << >>
    /\ trace' = << >>
    /\ reparsed' = FALSE
    /\ UNCHANGED << platform, alive, m_connectionString, m_connectionType, m_isConnected,
                    m_lastError, m_vid, m_pid, m_portName, m_serialFd, osOpen, osTimeout,
                    closeErr, lastConnect, discSince, connOk >>

Next ==
    \/ Connect
    \/ Disconnect
    \/ SendCommand
    \/ ReceiveResponse
    \/ SendCommandAndReceive
    \/ Destroy
    \/ DeviceSend

Spec == Init /\ [][Next]_vars

-----------------------------------------------------------------------------
(* The parser on its own: objects built from a wide set of connection      *)
(* strings, connected and disconnected.                                    *)

MaxRestLen == 3

RECURSIVE SeqsUpTo(_, _)
SeqsUpTo(S, n) ==
    IF n = 0 THEN {<< >>}
    ELSE LET shorter == SeqsUpTo(S, n - 1)
         IN  shorter \cup {Append(q, x) : q \in shorter, x \in S}

\* a hexadecimal digit, a character that is none, and the separator
RestChars == {"1", "Z", ":"}

Prefixes ==
    { << >>,
      << "B", "T", ":" >>,
      << "U", "S", "B", ":" >>,
      << "C", "O", "M" >>,
      << "/", "d", "e", "v", "/" >>,
      << "B", "T" >>,
      << "U", "S", "B" >>,
      << "x", "C", "O", "M" >>,
      << "/", "d", "e", "v" >> }

ExampleStrings ==
    { << "B", "T", ":", "C", "O", "M", "5" >>,
      << "B", "T", ":", "/", "d", "e", "v", "/", "t", "t", "y", "U", "S", "B", "0" >>,
      << "B", "T", ":", "U", "S", "B", ":", "1", ":", "2" >>,
      << "U", "S", "B", ":", "1", "2", "3", "4", ":", "5", "6", "7", "8" >>,
      << "U", "S", "B", ":", "Z", "Z", "Z", "Z", ":", "0", "0", "0", "1" >>,
      << "U", "S", "B", ":", "1", "2", "Z", "Z", ":", "0", "0", "0", "1" >>,
      << "U", "S", "B", ":", "1", "2", "3", "4", "5", ":", "1" >>,
      << "U", "S", "B", ":", "1", "2", "3", "4", "5", "6", "7", "8", "9", ":", "1" >>,
      << "U", "S", "B", ":", " ", "1", "2", ":", "1" >>,
      << "U", "S", "B", ":", "-", "1", ":", "1" >>,
      << "U", "S", "B", ":", "0", "x", "1", "F", ":", "2" >>,
      << "U", "S", "B", ":", "a", "B", ":", "C", "d" >>,
      << "U", "S", "B", ":", "1", ":", "2", ":", "3" >>,
      << "C", "O", "M", "3" >>,
      << "/", "d", "e", "v", "/", "t", "t", "y", "S", "0" >>,
      << "f", "o", "o" >> }

ParseStrings ==
    ExampleStrings \cup {p \o r : p \in Prefixes, r \in SeqsUpTo(RestChars, MaxRestLen)}

InitParse ==
    /\ platform \in Platforms
    /\ alive = TRUE
    /\ m_connectionString \in ParseStrings
    /\ m_connectionType = BLUETOOTH
    /\ m_isConnected = FALSE
    /\ m_lastError = << >>
    /\ m_vid = 0
    /\ m_pid = 0
    /\ m_portName = << >>
    /\ m_serialFd = Invalid
    /\ osOpen = {}
    /\ rx = << >>
    /\ osTimeout = 0
    /\ closeErr = FALSE
    /\ op = "constructor"
    /\ arg = << >>
    /\ argTimeout = 0
    /\ ret = FALSE
    /\ resp = << >>
    /\ trace = << >>
    /\ lastConnect = "none"
    /\ reparsed = FALSE
    /\ pc = Idle
    /\ discSince = FALSE
    /\ connOk = FALSE

NextParse ==
    \/ Connect
    \/ Disconnect

SpecParse == InitParse /\ [][NextParse]_vars

-----------------------------------------------------------------------------
(* The end-to-end scenario: a serial transport that accepts the open, takes *)
(* every write whole and echoes the written bytes back on the next read.    *)
(* The caller sends when the previous echo has been read.                   *)

EchoStrings ==
    {S \in ExampleStrings : startsWith(S, << "B", "T", ":" >>) /\ Len(S) > 3}

\* a command one byte longer than receiveResponse()'s buffer
BigCommand == [i \in 1..(BufferSize + 1) |-> IF i % 2 = 1 THEN 1 ELSE 2]

EchoCommands == Commands \cup {BigCommand}

AcceptingOpen ==
    [open |-> TRUE, getattr |-> TRUE, setattr |-> TRUE, settimeout |-> TRUE,
     enum |-> TRUE, err |-> ERROR_FILE_NOT_FOUND]

\* the read hands over what is pending, as much as the buffer takes
EchoRead(s) ==
    [getattr |-> TRUE, setattr |-> TRUE, settimeout |-> TRUE,
     read |-> Min(Len(s.rx), BufferSize), err |-> ERROR_ACCESS_DENIED]

InitEcho ==
    /\ platform \in Platforms
    /\ alive = TRUE
    /\ m_connectionString \in EchoStrings
    /\ m_connectionType = BLUETOOTH
    /\ m_isConnected = FALSE
    /\ m_lastError = << >>
    /\ m_vid = 0
    /\ m_pid = 0
    /\ m_portName = << >>
    /\ m_serialFd = Invalid
    /\ osOpen = {}
    /\ rx = << >>
    /\ osTimeout = 0
    /\ closeErr = FALSE
    /\ op = "constructor"
    /\ arg = << >>
    /\ argTimeout = 0
    /\ ret = FALSE
    /\ resp = << >>
    /\ trace = << >>
    /\ lastConnect = "none"
    /\ reparsed = FALSE
    /\ pc = Idle
    /\ discSince = FALSE
    /\ connOk = FALSE

EchoConnect ==
    /\ alive
    /\ LET r == connect(Cur, AcceptingOpen)
       IN  /\ Commit(r)
           /\ ret' = r.ret
           /\ lastConnect' = IF r.ret THEN "true" ELSE "false"
           /\ connOk' = (r.ret \/ connOk)
           /\ reparsed' = (/\ lastConnect # "none"
                           /\ \E i \in DOMAIN r.trace : r.trace[i][1] = "parseConnectionString")
    /\ op' = "connect"
    /\ UNCHANGED pc
    /\ arg' = << >>
    /\ argTimeout' = 0
    /\ discSince' = FALSE
    /\ UNCHANGED alive

EchoSend ==
    /\ alive
    /\ rx = << >>
    /\ \E command \in EchoCommands :
         /\ LET sent == sendCommand(Cur, command, Len(command))
                r == IF sent.trace # << >> THEN [sent EXCEPT !.rx = @ \o command] ELSE sent
            IN  Commit(r) /\ ret' = r.ret
         /\ arg' = command
    /\ op' = "sendCommand"
    /\ UNCHANGED pc
    /\ argTimeout' = 0
    /\ reparsed' = FALSE
    /\ UNCHANGED << alive, lastConnect, discSince, connOk >>

EchoReceive ==
    /\ alive
    /\ \E timeoutMs \in Timeouts :
         /\ Commit(receiveResponse(Cur, timeoutMs, EchoRead(Cur)))
         /\ argTimeout' = timeoutMs
    /\ op' = "receiveResponse"
    /\ UNCHANGED pc
    /\ arg' = << >>
    /\ ret' = FALSE
    /\ reparsed' = FALSE
    /\ UNCHANGED << alive, lastConnect, discSince, connOk >>

NextEcho ==
    \/ EchoConnect
    \/ EchoSend
    \/ EchoReceive
    \/ Disconnect

SpecEcho == InitEcho /\ [][NextEcho]_vars

-----------------------------------------------------------------------------
(* Two threads on one object without external serialisation: one runs      *)
(* disconnect(), the other sendCommand().  The class holds no lock, so the  *)
(* statements of the two calls interleave.  pc.sendSaw is where the         *)
(* disconnect() stood when the sendCommand() passed its checks, and         *)
(* pc.closedSince whether the handle has been closed since then.           *)

\* disconnect() that forgets m_isConnected = false
disconnectReturn_StaysConnected(s) == [s EXCEPT !.m_lastError = << >>, !.ret = TRUE]

\* the end of disconnect(), after cleanupConnection()
disconnectReturn(s) ==
    [s EXCEPT !.m_isConnected = FALSE, !.m_lastError = << >>, !.ret = TRUE]

RaceConnect ==
    /\ alive
    /\ pc.disc = "idle" /\ pc.send = "idle"
    /\ \E e \in OpenEnv :
         LET r == connect(Cur, e)
         IN  /\ Commit(r)
             /\ ret' = r.ret
             /\ lastConnect' = IF r.ret THEN "true" ELSE "false"
             /\ connOk' = (r.ret \/ connOk)
             /\ reparsed' = (/\ lastConnect # "none"
                             /\ \E i \in DOMAIN r.trace : r.trace[i][1] = "parseConnectionString")
    /\ op' = "connect"
    /\ pc' = Idle
    /\ arg' = << >>
    /\ argTimeout' = 0
    /\ discSince' = FALSE
    /\ UNCHANGED alive

\* if (!m_isConnected) { ...; return false; }
DisconnectCheck ==
    /\ alive
    /\ pc.disc = "idle"
    /\ IF ~m_isConnected
       THEN /\ Commit(disconnect(Cur))
            /\ op' = "disconnect"
            /\ pc' = pc
       ELSE /\ Commit(Cur)
            /\ op' = "disconnect.check"
            /\ pc' = [pc EXCEPT !.disc = "cleanup"]
    /\ ret' = FALSE
    /\ reparsed' = FALSE
    /\ UNCHANGED << alive, arg, argTimeout, lastConnect, discSince, connOk >>

\* cleanupConnection(): close(m_serialFd) / CloseHandle(m_serialHandle)
DisconnectClose ==
    /\ alive
    /\ pc.disc = "cleanup"
    /\ IF m_connectionType = BLUETOOTH /\ m_serialFd # Invalid
       THEN /\ Commit(OsClose(Cur, m_serialFd))
            /\ pc' = [pc EXCEPT !.disc = "clear", !.closedSince = (pc.send = "checked")]
       ELSE /\ Commit(Cur)
            /\ pc' = [pc EXCEPT !.disc = "return"]
    /\ op' = "disconnect.close"
    /\ ret' = FALSE
    /\ reparsed' = FALSE
    /\ UNCHANGED << alive, arg, argTimeout, lastConnect, discSince, connOk >>

\* cleanupConnection(): m_serialFd = -1 / m_serialHandle = INVALID_HANDLE_VALUE
DisconnectClear ==
    /\ alive
    /\ pc.disc = "clear"
    /\ Commit([Cur EXCEPT !.m_serialFd = Invalid])
    /\ pc' = [pc EXCEPT !.disc = "return"]
    /\ op' = "disconnect.clear"
    /\ ret' = FALSE
    /\ reparsed' = FALSE
    /\ UNCHANGED << alive, arg, argTimeout, lastConnect, discSince, connOk >>

\* m_isConnected = false; m_lastError = ""; return true;
DisconnectReturn ==
    /\ alive
    /\ pc.disc = "return"
    /\ Commit(disconnectReturn(Cur))
    /\ pc' = [pc EXCEPT !.disc = "idle"]
    /\ op' = "disconnect"
    /\ ret' = TRUE
    /\ discSince' = TRUE
    /\ connOk' = FALSE
    /\ reparsed' = FALSE
    /\ UNCHANGED << alive, arg, argTimeout, lastConnect >>

\* the checks of sendCommand(): a call that fails them returns here
SendCheck ==
    /\ alive
    /\ pc.send = "idle"
    /\ \E command \in Commands :
         LET r == sendCommand(Cur, command, Len(command))
         IN  /\ IF r.trace = << >>
                THEN /\ Commit(r)
                     /\ op' = "sendCommand"
                     /\ pc' = pc
                ELSE /\ Commit(Cur)
                     /\ op' = "sendCommand.check"
                     /\ pc' = [pc EXCEPT !.send = "checked", !.sendSaw = pc.disc,
                                         !.closedSince = FALSE]
             /\ arg' = command
    /\ ret' = FALSE
    /\ argTimeout' = 0
    /\ reparsed' = FALSE
    /\ UNCHANGED << alive, lastConnect, discSince, connOk >>

\* the write of sendCommand(), on whatever m_serialFd holds now, and the return;
\* a write on a handle that is not open fails.  The record keeps the handle.
SendWrite ==
    /\ alive
    /\ pc.send = "checked"
    /\ \E w \in (IF m_serialFd \in osOpen THEN -1..Len(arg) ELSE {-1}) :
         LET r == sendCommand([Cur EXCEPT !.m_isConnected = TRUE], arg, w)
         IN  /\ Commit([r EXCEPT !.m_isConnected = m_isConnected,
                                 !.trace = << << r.trace[1][1], w, m_serialFd >> >>])
             /\ ret' = r.ret
    /\ pc' = [pc EXCEPT !.send = "idle"]
    /\ op' = "sendCommand.write"
    /\ reparsed' = FALSE
    /\ UNCHANGED << alive, arg, argTimeout, lastConnect, discSince, connOk >>

NextRace ==
    \/ RaceConnect
    \/ DisconnectCheck
    \/ DisconnectClose
    \/ DisconnectClear
    \/ DisconnectReturn
    \/ SendCheck
    \/ SendWrite

SpecRace == Init /\ [][NextRace]_vars

-----------------------------------------------------------------------------
(* Reading the record of the last call *)

OpenCalls == {"open", "CreateFileA"}
CloseCalls == {"close", "CloseHandle"}
WriteCalls == {"write", "WriteFile"}
ReadCalls == {"read", "ReadFile"}
TransportCalls ==
    OpenCalls \cup CloseCalls \cup WriteCalls \cup ReadCalls
    \cup {"tcgetattr", "tcsetattr", "GetCommState", "SetCommState", "SetCommTimeouts",
          "SetupDiGetClassDevs", "GetLastError"}

\* the positions of the last call's record that hold one of the calls in names
At(tr, names) == {i \in DOMAIN tr : tr[i][1] \in names}

NotConnectedError == << "Not connected to device" >>
EmptyCommandError == << "Command is empty" >>

-----------------------------------------------------------------------------
(* C1 (as stated): sendCommand() returns true and receiveResponse() returns *)
(* data only where the most recent connect() returned true and no          *)
(* disconnect() ran since; everywhere else sendCommand() returns false and  *)
(* receiveResponse() returns the empty sequence, with the not-connected    *)
(* error.                                                                  *)
C1_AsStated ==
    LET live == lastConnect = "true" /\ ~discSince
    IN  /\ (op = "sendCommand" /\ ret) => live
        /\ (op = "receiveResponse" /\ resp # << >>) => live
        /\ (op = "sendCommand" /\ ~live) => (~ret /\ m_lastError = NotConnectedError)
        /\ (op = "receiveResponse" /\ ~live)
               => (resp = << >> /\ m_lastError = NotConnectedError)

(* C1 (amended): sendCommand() returns true and receiveResponse() returns  *)
(* data only where some connect() has returned true and no disconnect()    *)
(* ran since (a later connect() refused as already connected changes       *)
(* nothing); everywhere else sendCommand() returns false and               *)
(* receiveResponse() returns the empty sequence, with the not-connected    *)
(* error.                                                                  *)
C1_SendReceiveOnlyWhileConnected ==
    /\ (op = "sendCommand" /\ ret) => connOk
    /\ (op = "receiveResponse" /\ resp # << >>) => connOk
    /\ (op = "sendCommand" /\ ~connOk) => (~ret /\ m_lastError = NotConnectedError)
    /\ (op = "receiveResponse" /\ ~connOk)
           => (resp = << >> /\ m_lastError = NotConnectedError)

\* a send succeeds although the most recent connect() returned false
C1_Witness == op = "sendCommand" /\ ret /\ connOk /\ lastConnect = "false"

(* C2: connect() on a Connected object returns false with the              *)
(* already-connected error and changes nothing else: still Connected, the  *)
(* handle, the connection type and the port name as before, no parse and   *)
(* no transport call.                                                      *)
C2_ConnectWhenConnected ==
    [][(op' = "connect" /\ m_isConnected) =>
          /\ ~ret'
          /\ m_lastError' = << "Already connected" >>
          /\ m_isConnected'
          /\ trace' = << >>
          /\ UNCHANGED << m_serialFd, m_connectionType, m_portName, m_vid, m_pid,
                          osOpen, rx, osTimeout, closeErr >>]_vars

C2_Witness == op = "connect" /\ m_isConnected /\ ~ret

(* C3: disconnect() from Connected returns true; disconnect() from         *)
(* Disconnected, in particular right after a disconnect() that returned    *)
(* true, returns false with the not-connected error, leaves the object     *)
(* Disconnected and issues no close on the handle.                         *)
C3_DisconnectIdempotent ==
    [][op' = "disconnect" =>
          /\ m_isConnected => ret'
          /\ (op = "disconnect" /\ ret) => ~ret'
          /\ ~m_isConnected =>
                /\ ~ret'
                /\ m_lastError' = << "Not connected" >>
                /\ ~m_isConnected'
                /\ trace' = << >>
                /\ UNCHANGED << m_serialFd, osOpen, closeErr >>]_vars

\* a second disconnect() in a row after the object had been connected
C3_Witness ==
    op = "disconnect" /\ ~ret /\ lastConnect = "true" /\ discSince
    /\ m_lastError = << "Not connected" >>

(* C4 (as stated): sendCommandAndReceive() with an empty command issues no *)
(* transport call and fails with the empty-command error, in every state.  *)
C4_AsStated ==
    (op = "sendCommandAndReceive" /\ arg = << >>) =>
        /\ trace = << >>
        /\ resp = << >>
        /\ m_lastError = EmptyCommandError

(* C4 (amended): sendCommandAndReceive() with an empty command issues no   *)
(* transport call in any state and returns the empty sequence; the error   *)
(* is the empty-command error when Connected and the not-connected error   *)
(* when Disconnected.                                                      *)
C4_EmptyCommandNeverWritten ==
    (op = "sendCommandAndReceive" /\ arg = << >>) =>
        /\ trace = << >>
        /\ resp = << >>
        /\ m_lastError = IF m_isConnected THEN EmptyCommandError ELSE NotConnectedError

C4_Witness ==
    op = "sendCommandAndReceive" /\ arg = << >> /\ m_isConnected
    /\ m_lastError = EmptyCommandError

(* C5: sendCommandAndReceive() is send, then receive: a read is issued     *)
(* only after a write that took the whole command; when the send step      *)
(* fails no read is issued, the result is empty and last-error is the send *)
(* step's; otherwise the outcome is that of receiveResponse(timeoutMs)     *)
(* called after the send.                                                  *)
C5_SendThenReceive ==
    [][op' = "sendCommandAndReceive" =>
          LET writes == At(trace', WriteCalls)
              reads == At(trace', ReadCalls)
              sendOk == /\ m_isConnected
                        /\ arg' # << >>
                        /\ \E j \in writes : trace'[j][2] = Len(arg')
          IN  /\ \A i \in reads : \E j \in writes : j < i /\ trace'[j][2] = Len(arg')
              /\ Cardinality(writes) <= 1
              /\ ~sendOk =>
                    /\ reads = {}
                    /\ resp' = << >>
                    /\ m_lastError' =
                          IF ~m_isConnected THEN NotConnectedError
                          ELSE IF arg' = << >> THEN EmptyCommandError
                          ELSE IF \E j \in writes : trace'[j][2] < 0
                          THEN << "Failed to write to serial port" >>
                          ELSE << "Partial write to serial port" >>
              /\ sendOk =>
                    \E e \in ReadEnv(Cur) :
                       LET r == receiveResponse(sendCommand(Cur, arg', Len(arg')),
                                                argTimeout', e)
                       IN  /\ resp' = r.resp
                           /\ m_lastError' = r.m_lastError
                           /\ trace' = r.trace
                           /\ rx' = r.rx
                           /\ osTimeout' = r.osTimeout]_vars

\* the send succeeded and the read that followed returned data
C5_Witness ==
    op = "sendCommandAndReceive" /\ resp # << >> /\ At(trace, WriteCalls) # {}

ParseErrors ==
    { << "Connection string is empty" >>,
      << "Invalid Bluetooth connection string format. Use 'BT:COM5' or 'BT:/dev/ttyUSB0'" >>,
      << "Invalid USB connection string format. Use 'USB:VID:PID' (e.g., 'USB:1234:5678')" >>,
      << "Invalid VID/PID format. Use hexadecimal (e.g., 'USB:1234:5678')" >>,
      << "Unknown connection string format. Use 'BT:COM5' for Bluetooth or 'USB:1234:5678' for USB" >> }

\* the last call was a connect() that got past the already-connected guard
ConnectFromDisconnected == op = "connect" /\ At(trace, {"parseConnectionString"}) # {}

(* C6: connect() from Disconnected whose parse of the connection string    *)
(* fails leaves the object Disconnected, issues no transport call, returns *)
(* false and leaves a parse error in last-error (the empty-string error    *)
(* for the empty string).                                                  *)
C6_ParseFailureStaysDisconnected ==
    (ConnectFromDisconnected /\ ~parseConnectionString(Cur).ret) =>
        /\ ~m_isConnected
        /\ ~ret
        /\ At(trace, TransportCalls) = {}
        /\ osOpen = {}
        /\ m_serialFd = Invalid
        /\ m_lastError \in ParseErrors
        /\ m_lastError = parseConnectionString(Cur).m_lastError
        /\ (m_connectionString = << >>) = (m_lastError = << "Connection string is empty" >>)

C6_Witness ==
    /\ op = "connect"
    /\ m_connectionString = << "U", "S", "B", ":", "Z", "Z", "Z", "Z", ":", "0", "0", "0", "1" >>
    /\ m_lastError = << "Invalid VID/PID format. Use hexadecimal (e.g., 'USB:1234:5678')" >>

\* the transport's open, as the operating system answered it: the port opened
\* and its attributes were read and set
OpenSucceeded(tr) ==
    IF platform = "win32"
    THEN /\ \E i \in At(tr, {"CreateFileA"}) : tr[i][2] # Invalid
         /\ \E i \in At(tr, {"GetCommState"}) : tr[i][2] = 1
         /\ \E i \in At(tr, {"SetCommState"}) : tr[i][2] = 1
    ELSE /\ \E i \in At(tr, {"open"}) : tr[i][2] >= 0
         /\ \E i \in At(tr, {"tcgetattr"}) : tr[i][2] = 0
         /\ \E i \in At(tr, {"tcsetattr"}) : tr[i][2] = 0

\* the messages of the step the open failed at
OpenErrors(tr) ==
    IF m_connectionType = USB
    THEN IF platform = "posix"
         THEN {<< "USB connection requires libusb. Install with: sudo apt-get install libusb-1.0-0-dev" >>}
         ELSE IF \E i \in At(tr, {"SetupDiGetClassDevs"}) : tr[i][2] = Invalid
         THEN {<< "Failed to enumerate USB devices" >>}
         ELSE {<< "USB device not found (VID: ", ToString(m_vid), ", PID: ",
                  ToString(m_pid), ")" >>}
    ELSE IF platform = "posix"
    THEN IF \E i \in At(tr, {"open"}) : tr[i][2] < 0
         THEN {<< "Failed to open serial port: " >> \o m_portName}
         ELSE IF \E i \in At(tr, {"tcgetattr"}) : tr[i][2] # 0
         THEN {<< "Failed to get serial port attributes" >>}
         ELSE {<< "Failed to set serial port attributes" >>}
    ELSE IF \E i \in At(tr, {"CreateFileA"}) : tr[i][2] = Invalid
         THEN {<< "Failed to open COM port: " >> \o m_portName
                   \o << " (Error: ", ToString(c), ")" >> :
                   c \in {ERROR_FILE_NOT_FOUND, ERROR_ACCESS_DENIED}}
         ELSE IF \E i \in At(tr, {"GetCommState"}) : tr[i][2] # 1
         THEN {<< "Failed to get COM port state" >>}
         ELSE {<< "Failed to set COM port state" >>}

(* C7: connect() from Disconnected with a connection string that parses    *)
(* enters Connected exactly when the transport's open succeeds, and then   *)
(* returns true with last-error empty; when the open fails at any step the *)
(* object stays Disconnected, connect() returns false and last-error is    *)
(* the error of that step.                                                 *)
C7_ConnectedIffOpenSucceeds ==
    (ConnectFromDisconnected /\ parseConnectionString(Cur).ret) =>
        /\ m_isConnected = OpenSucceeded(trace)
        /\ ret = m_isConnected
        /\ m_isConnected => m_lastError = << >>
        /\ ~m_isConnected => m_lastError \in OpenErrors(trace)

\* the port opened, but its attributes could not be set
C7_Witness ==
    /\ op = "connect"
    /\ ~ret
    /\ At(trace, OpenCalls) # {}
    /\ m_lastError \in {<< "Failed to set serial port attributes" >>,
                        << "Failed to set COM port state" >>}

(* C8: disconnect() from Connected returns true, closes the transport      *)
(* handle and marks it invalid, leaves the object Disconnected and         *)
(* last-error empty, whatever error was recorded before.                   *)
C8_DisconnectFromConnected ==
    [][(op' = "disconnect" /\ m_isConnected) =>
          /\ ret'
          /\ \E i \in At(trace', CloseCalls) : trace'[i][2] = m_serialFd
          /\ osOpen' = osOpen \ {m_serialFd}
          /\ m_serialFd \in osOpen
          /\ m_serialFd' = Invalid
          /\ ~m_isConnected'
          /\ m_lastError' = << >>]_vars

C8_Witness == op = "disconnect" /\ ret /\ At(trace, CloseCalls) # {} /\ osOpen = {}

(* C9: the destructor of a Connected object performs the disconnect        *)
(* transition (the handle is closed), the destructor of a Disconnected     *)
(* object closes nothing, and no handle is open once the object is         *)
(* destroyed.                                                              *)
C9_TeardownReleases ==
    [][op' = "destructor" =>
          /\ ~alive'
          /\ osOpen' = {}
          /\ ~closeErr'
          /\ IF m_isConnected
             THEN /\ \E i \in At(trace', CloseCalls) : trace'[i][2] = m_serialFd
                  /\ ~m_isConnected'
                  /\ m_serialFd' = Invalid
             ELSE trace' = << >>]_vars

\* an object destroyed while Connected
C9_Witness == ~alive /\ At(trace, CloseCalls) # {} /\ osOpen = {} /\ ~m_isConnected

(* C10: between public calls the handle is open exactly when the object is *)
(* Connected: the only open descriptor is the object's, a Disconnected     *)
(* object holds the invalid handle and nothing is left open, and close is  *)
(* never issued on a descriptor that is not open.                          *)
C10_HandleOpenIffConnected ==
    /\ (m_serialFd # Invalid) = m_isConnected
    /\ osOpen = IF m_isConnected THEN {m_serialFd} ELSE {}
    /\ ~closeErr
    /\ (At(trace, OpenCalls) # {}) => op = "connect"
    /\ (At(trace, CloseCalls) # {}) => op \in {"connect", "disconnect", "destructor"}
    /\ Cardinality(At(trace, CloseCalls)) <= 1

\* an open that failed midway: the descriptor was closed again
C10_Witness ==
    op = "connect" /\ ~ret /\ At(trace, OpenCalls) # {} /\ At(trace, CloseCalls) # {}
    /\ osOpen = {} /\ m_serialFd = Invalid


ReadFailedError == << "Failed to read from serial port" >>

\* the results the operating system gave to the last call's read
ReadResult(tr) == {tr[i][2] : i \in At(tr, ReadCalls)}

\* the results the operating system gave to the last call's write
WriteResult(tr) == {tr[i][2] : i \in At(tr, WriteCalls)}

(* C11: right after a connect(), disconnect(), sendCommand() or            *)
(* receiveResponse() that succeeds (for receiveResponse(): the read        *)
(* returned data or timed out), getLastError() is the empty string.        *)
C11_ClearedOnSuccess ==
    /\ (op \in {"connect", "disconnect", "sendCommand"} /\ ret) => m_lastError = << >>
    /\ (op = "receiveResponse" /\ \E n \in ReadResult(trace) : n >= 0)
           => m_lastError = << >>

(* C12: whenever connect(), disconnect() or sendCommand() returns false,   *)
(* getLastError() is, right after the call, the non-empty message of the   *)
(* path that failed, whatever message was there before.                    *)
C12_FailureRecordsItsMessage ==
    /\ (op \in {"connect", "disconnect", "sendCommand"} /\ ~ret) => m_lastError # << >>
    /\ (op = "connect" /\ ~ret) =>
          m_lastError \in
             IF trace = << >> THEN {<< "Already connected" >>}
             ELSE IF ~parseConnectionString(Cur).ret
             THEN ParseErrors
             ELSE OpenErrors(trace)
    /\ (op = "disconnect" /\ ~ret) => m_lastError = << "Not connected" >>
    /\ (op = "sendCommand" /\ ~ret) =>
          m_lastError =
             IF ~m_isConnected THEN NotConnectedError
             ELSE IF arg = << >> THEN EmptyCommandError
             ELSE IF \E n \in WriteResult(trace) : n < 0
             THEN << "Failed to write to serial port" >>
             ELSE << "Partial write to serial port" >>

\* a short write reported over the message an earlier call left
C12_Witness ==
    op = "sendCommand" /\ ~ret /\ WriteResult(trace) = {1}
    /\ m_lastError = << "Partial write to serial port" >>

(* C13: when Connected, a read that times out (no bytes) makes             *)
(* receiveResponse() return the empty sequence and getLastError() is then  *)
(* not the read-failure message, while a read that fails (on Windows: with *)
(* an error other than ERROR_IO_PENDING) makes it return the empty         *)
(* sequence with the read-failure message.                                 *)
C13_TimeoutDistinguishable ==
    op = "receiveResponse" =>
        /\ (0 \in ReadResult(trace)) => (resp = << >> /\ m_lastError # ReadFailedError)
        /\ ((\E n \in ReadResult(trace) : n < 0)
               /\ \A i \in At(trace, {"GetLastError"}) : trace[i][2] # ERROR_IO_PENDING)
               => (resp = << >> /\ m_lastError = ReadFailedError)

-----------------------------------------------------------------------------
(* Reading the outcome of the parser off a connect() that ran it *)

EmptyStringError == << "Connection string is empty" >>
BluetoothFormatError ==
    << "Invalid Bluetooth connection string format. Use 'BT:COM5' or 'BT:/dev/ttyUSB0'" >>
UsbFormatError ==
    << "Invalid USB connection string format. Use 'USB:VID:PID' (e.g., 'USB:1234:5678')" >>
VidPidError == << "Invalid VID/PID format. Use hexadecimal (e.g., 'USB:1234:5678')" >>
UnknownFormatError ==
    << "Unknown connection string format. Use 'BT:COM5' for Bluetooth or 'USB:1234:5678' for USB" >>

\* S begins with the characters of p
HasPrefix(S, p) == Len(S) >= Len(p) /\ \A i \in 1..Len(p) : S[i] = p[i]

\* what follows the first n characters of S
After(S, n) == [i \in 1..(Len(S) - n) |-> S[i + n]]

BTPrefix == << "B", "T", ":" >>
USBPrefix == << "U", "S", "B", ":" >>

\* connect() went on to open the transport, so the parser returned true
ParseAccepted == ConnectFromDisconnected /\ m_lastError \notin ParseErrors

SerialOutcome == ParseAccepted /\ m_connectionType = BLUETOOTH /\ m_portName # << >>
UsbOutcome == ParseAccepted /\ m_connectionType = USB
InvalidFormatOutcome ==
    ConnectFromDisconnected /\ ~ret /\ m_lastError \in ParseErrors \ {EmptyStringError}
EmptyDescriptorOutcome == ConnectFromDisconnected /\ ~ret /\ m_lastError = EmptyStringError

\* the object as the constructor leaves it
FreshObject ==
    [Cur EXCEPT !.m_connectionType = BLUETOOTH, !.m_isConnected = FALSE,
                !.m_lastError = << >>, !.m_vid = 0, !.m_pid = 0,
                !.m_portName = << >>, !.m_serialFd = Invalid]

(* C14: every connect() that runs the parser ends in exactly one of the     *)
(* outcomes Serial, Usb, InvalidFormat, EmptyDescriptor; EmptyDescriptor is *)
(* the outcome exactly for the empty string, and then no descriptor field   *)
(* has been touched; and whatever the object went through before, the      *)
(* outcome and the descriptor fields are those the parser gives on the     *)
(* freshly constructed object.                                             *)
C14_ParseTotalDeterministic ==
    ConnectFromDisconnected =>
        LET P == parseConnectionString(FreshObject)
            outcomes == << SerialOutcome, UsbOutcome, InvalidFormatOutcome,
                           EmptyDescriptorOutcome >>
        IN  /\ Cardinality({k \in 1..4 : outcomes[k]}) = 1
            /\ EmptyDescriptorOutcome <=> m_connectionString = << >>
            /\ m_connectionString = << >> =>
                  /\ m_connectionType = BLUETOOTH
                  /\ m_portName = << >>
                  /\ m_vid = 0 /\ m_pid = 0
            /\ ParseAccepted <=> P.ret
            /\ ~P.ret => m_lastError = P.m_lastError
            /\ m_connectionType = P.m_connectionType
            /\ m_portName = P.m_portName
            /\ m_vid = P.m_vid
            /\ m_pid = P.m_pid

\* a string is parsed again after an earlier parse of it was accepted
C14_Witness ==
    ConnectFromDisconnected /\ reparsed /\ SerialOutcome /\ ~ret
    /\ m_portName = << "1", "Z", ":" >>

(* C15: a connect() that parses a string "BT:" + rest fails with the       *)
(* Bluetooth format error and no transport call when rest is empty, and    *)
(* otherwise takes the serial path with port name exactly rest, whatever   *)
(* rest looks like (a "USB:" or "COM" inside it is part of the port name). *)
C15_BluetoothRule ==
    (ConnectFromDisconnected /\ HasPrefix(m_connectionString, BTPrefix)) =>
        IF After(m_connectionString, 3) = << >>
        THEN /\ InvalidFormatOutcome
             /\ m_lastError = BluetoothFormatError
             /\ At(trace, TransportCalls) = {}
        ELSE /\ SerialOutcome
             /\ m_portName = After(m_connectionString, 3)
             /\ At(trace, OpenCalls) # {}
             /\ At(trace, {"SetupDiGetClassDevs"}) = {}
             /\ m_vid = 0 /\ m_pid = 0

\* "BT:USB:1:2" is opened as the serial port "USB:1:2"
C15_Witness ==
    ConnectFromDisconnected /\ ret
    /\ m_connectionString = << "B", "T", ":", "U", "S", "B", ":", "1", ":", "2" >>
    /\ m_connectionType = BLUETOOTH
    /\ m_portName = << "U", "S", "B", ":", "1", ":", "2" >>

HexChars == {HexLower[i] : i \in 1..16} \cup {HexUpper[i] : i \in 1..16}

\* h is one or more hexadecimal digits and nothing else
IsHex(h) == h # << >> /\ \A i \in 1..Len(h) : h[i] \in HexChars

\* the two halves of "USB:" + half1 + ":" + half2, split at the first ':'
UsbHalf1(S) ==
    LET r == After(S, 4)
    IN  SubSeq(r, 1, (CHOOSE i \in 1..Len(r) : r[i] = ":" /\ \A j \in 1..(i - 1) : r[j] # ":") - 1)
UsbHalf2(S) == After(S, 4 + Len(UsbHalf1(S)) + 1)

WellFormedUsb(S) ==
    /\ HasPrefix(S, USBPrefix)
    /\ \E i \in 5..Len(S) : S[i] = ":"
    /\ IsHex(UsbHalf1(S))
    /\ IsHex(UsbHalf2(S))

(* C16: a connect() that parses a string starting with "USB:" takes the    *)
(* USB path only if the remainder is two halves separated by ':' that are   *)
(* hexadecimal digits throughout; with the separator missing, or a half    *)
(* empty or holding a character that is no hexadecimal digit, it fails     *)
(* with one of the two USB format errors.                                  *)
C16_UsbRule ==
    (ConnectFromDisconnected /\ HasPrefix(m_connectionString, USBPrefix)) =>
        /\ UsbOutcome => WellFormedUsb(m_connectionString)
        /\ ~WellFormedUsb(m_connectionString) =>
              /\ InvalidFormatOutcome
              /\ m_lastError \in {UsbFormatError, VidPidError}

\* the number that the hexadecimal digits of h write, without any reduction
RECURSIVE ExactHex(_)
ExactHex(h) ==
    IF h = << >> THEN 0
    ELSE 16 * ExactHex(SubSeq(h, 1, Len(h) - 1)) + HexVal(h[Len(h)])

(* C17: when a connect() takes the USB path for a string whose two halves  *)
(* are hexadecimal digits throughout, m_vid and m_pid are the numbers the   *)
(* halves write, and both are at most 0xFFFF: a half too large for 16 bits *)
(* is not accepted under another identifier.                               *)
C17_ExactIdentifiers ==
    (ConnectFromDisconnected /\ UsbOutcome /\ WellFormedUsb(m_connectionString)) =>
        /\ m_vid = ExactHex(UsbHalf1(m_connectionString))
        /\ m_pid = ExactHex(UsbHalf2(m_connectionString))
        /\ m_vid \in 0..65535
        /\ m_pid \in 0..65535

COMPrefix == << "C", "O", "M" >>
DevPrefix == << "/", "d", "e", "v", "/" >>

(* C18: a connect() that parses a non-empty string starting with neither   *)
(* "BT:" nor "USB:" takes the serial path with the whole string as port     *)
(* name when the string starts with "COM" or "/dev/", and otherwise fails   *)
(* with the unknown-format error, no transport call and no descriptor       *)
(* field touched.                                                          *)
C18_LegacyRule ==
    (/\ ConnectFromDisconnected
     /\ m_connectionString # << >>
     /\ ~HasPrefix(m_connectionString, BTPrefix)
     /\ ~HasPrefix(m_connectionString, USBPrefix)) =>
        IF HasPrefix(m_connectionString, COMPrefix) \/ HasPrefix(m_connectionString, DevPrefix)
        THEN /\ SerialOutcome
             /\ m_portName = m_connectionString
             /\ At(trace, OpenCalls) # {}
        ELSE /\ InvalidFormatOutcome
             /\ m_lastError = UnknownFormatError
             /\ At(trace, TransportCalls) = {}
             /\ m_connectionType = BLUETOOTH
             /\ m_portName = << >>
             /\ m_vid = 0 /\ m_pid = 0

\* "COM3" is opened as the serial port "COM3"
C18_Witness ==
    ConnectFromDisconnected /\ ret
    /\ m_connectionString = << "C", "O", "M", "3" >>
    /\ m_connectionType = BLUETOOTH
    /\ m_portName = << "C", "O", "M", "3" >>

WriteFailedError == << "Failed to write to serial port" >>
PartialWriteError == << "Partial write to serial port" >>

(* C19: sendCommand() with a non-empty command on a connected object       *)
(* issues exactly one write and no other transport call; it returns true   *)
(* exactly when the write accepted all Len(command) bytes, fails with the  *)
(* partial-write error when it accepted fewer, and with the write-failed   *)
(* error when the write itself failed.                                     *)
C19_OneFullWrite ==
    (op = "sendCommand" /\ m_isConnected /\ arg # << >>) =>
        /\ m_connectionType = BLUETOOTH
        /\ Cardinality(At(trace, WriteCalls)) = 1
        /\ At(trace, TransportCalls) = At(trace, WriteCalls)
        /\ \A w \in WriteResult(trace) :
              /\ ret <=> w = Len(arg)
              /\ (w >= 0 /\ w < Len(arg)) => m_lastError = PartialWriteError
              /\ w < 0 => m_lastError = WriteFailedError

\* one of two bytes is accepted and the call fails without a second write
C19_Witness ==
    op = "sendCommand" /\ m_isConnected /\ arg = << 1, 2 >>
    /\ trace \in {<< << "write", 1 >> >>, << << "WriteFile", 1 >> >>}
    /\ ~ret /\ m_lastError = PartialWriteError

(* C20: a sendCommand() that returns false (not connected, empty command,  *)
(* failed write, short write) and a receiveResponse() whose read fails     *)
(* leave m_isConnected, the handle, the connection type, the port name,    *)
(* the identifiers and the set of open descriptors as they were, and close *)
(* nothing.                                                                *)
C20_FailedIoKeepsConnection ==
    [][ ( \/ (op' = "sendCommand" /\ ~ret')
          \/ (op' = "receiveResponse" /\ \E n \in ReadResult(trace') : n < 0) )
        => /\ UNCHANGED << m_isConnected, m_serialFd, m_connectionType, m_portName,
                           m_vid, m_pid, osOpen >>
           /\ At(trace', CloseCalls) = {} ]_vars

\* a write has failed and the object is still connected on its open handle
C20_Witness ==
    op = "sendCommand" /\ ~ret /\ WriteResult(trace) = {-1}
    /\ m_lastError = WriteFailedError
    /\ m_isConnected /\ m_serialFd \in osOpen

-----------------------------------------------------------------------------
(* C21 (as stated): against the echoing transport connect() succeeds, every *)
(* non-empty command is sent and the receiveResponse() that follows returns *)
(* exactly that command, disconnect() succeeds, and every sendCommand()     *)
(* after it fails with the not-connected error.                            *)
C21_AsStated ==
    [][ /\ (op' = "connect" /\ ~m_isConnected) => (ret' /\ m_isConnected')
        /\ (op' = "sendCommand" /\ m_isConnected /\ arg' # << >>) => ret'
        /\ (op = "sendCommand" /\ ret /\ op' = "receiveResponse") => resp' = arg
        /\ (op' = "disconnect" /\ m_isConnected) => (ret' /\ ~m_isConnected')
        /\ (op' = "sendCommand" /\ lastConnect = "true" /\ discSince)
              => (~ret' /\ m_lastError' = NotConnectedError) ]_vars

(* C21 (amended): the same, where the receiveResponse() that follows a     *)
(* sent command returns exactly the command when it has at most BufferSize *)
(* bytes, and its first BufferSize bytes when it is longer.                *)
C21_EchoEndToEnd ==
    [][ /\ (op' = "connect" /\ ~m_isConnected) => (ret' /\ m_isConnected')
        /\ (op' = "sendCommand" /\ m_isConnected /\ arg' # << >>) => ret'
        /\ (op = "sendCommand" /\ ret /\ op' = "receiveResponse") =>
              resp' = IF Len(arg) <= BufferSize THEN arg ELSE SubSeq(arg, 1, BufferSize)
        /\ (op' = "disconnect" /\ m_isConnected) => (ret' /\ ~m_isConnected')
        /\ (op' = "sendCommand" /\ lastConnect = "true" /\ discSince)
              => (~ret' /\ m_lastError' = NotConnectedError) ]_vars

\* the two bytes sent have come back
C21_Witness ==
    op = "receiveResponse" /\ m_isConnected /\ resp = << 1, 2 >> /\ rx = << >>

\* the calls by which receiveResponse() sets the read timeout all succeeded
TimeoutCallsSucceeded(tr) ==
    IF platform = "win32"
    THEN \E i \in At(tr, {"SetCommTimeouts"}) : tr[i][2] = 1
    ELSE /\ \E i \in At(tr, {"tcgetattr"}) : tr[i][2] = 0
         /\ \E i \in At(tr, {"tcsetattr"}) : tr[i][2] = 0

(* C22: after a receiveResponse(timeoutMs) that issued its read, with the   *)
(* calls that set the timeout having succeeded, the read timeout in effect  *)
(* on the port is timeoutMs, whatever it was before the call.              *)
C22_TimeoutPerCall ==
    (op = "receiveResponse" /\ At(trace, ReadCalls) # {} /\ TimeoutCallsSucceeded(trace))
        => osTimeout = argTimeout

(* C23: no call retries: a connect() issues at most one open (or one USB   *)
(* enumeration) and no write or read; a sendCommand() at most one write and *)
(* nothing else; a receiveResponse() at most one read, no open and no       *)
(* write; a sendCommandAndReceive() at most one write and then at most one  *)
(* read, and no open; a disconnect() no open, write or read.               *)
C23_NoInternalRetry ==
    LET opens == At(trace, OpenCalls \cup {"SetupDiGetClassDevs"})
        writes == At(trace, WriteCalls)
        reads == At(trace, ReadCalls)
    IN  /\ op = "connect" =>
              Cardinality(opens) <= 1 /\ writes = {} /\ reads = {}
        /\ op = "sendCommand" =>
              Cardinality(writes) <= 1 /\ opens = {} /\ reads = {}
        /\ op = "receiveResponse" =>
              Cardinality(reads) <= 1 /\ opens = {} /\ writes = {}
        /\ op = "sendCommandAndReceive" =>
              /\ Cardinality(writes) <= 1 /\ Cardinality(reads) <= 1 /\ opens = {}
              /\ \A i \in writes, j \in reads : i < j
        /\ op = "disconnect" => opens = {} /\ writes = {} /\ reads = {}

\* the one open of a connect() has failed and the call has returned
C23_Witness ==
    op = "connect" /\ ~ret /\ ~m_isConnected
    /\ Cardinality(At(trace, OpenCalls)) = 1
    /\ \A i \in At(trace, OpenCalls) : trace[i][2] = Invalid

\* the write of the sendCommand() that has just returned went to a handle
\* that was not open
StaleWrite == op = "sendCommand.write" /\ trace[1][3] \notin osOpen

(* C24: with disconnect() and sendCommand() on two threads, a write goes   *)
(* to a handle that is not open only when a disconnect() overlapped the     *)
(* sendCommand(): it was under way when the sendCommand() passed its        *)
(* checks, or it closed the handle between the checks and the write.  The  *)
(* interleaving of the claim is the witness.                               *)
C24_StaleWriteOnlyWhenOverlapping ==
    StaleWrite => (pc.sendSaw # "idle" \/ pc.closedSince)

\* the sendCommand() passed its checks before the disconnect() began, the
\* disconnect() closed the handle, and the write went to the closed handle
C24_Witness ==
    StaleWrite /\ pc.sendSaw = "idle" /\ pc.closedSince
    /\ trace[1][3] # Invalid /\ m_lastError = WriteFailedError

UsbBranchErrors ==
    { << "USB send not fully implemented" >>, << "USB receive not fully implemented" >> }

(* C25: a connect() that takes the USB path returns false with a message   *)
(* and leaves the object disconnected, whatever the enumeration answers; a *)
(* connected object is always of the serial type; and the messages of the  *)
(* USB branches of sendCommand() and receiveResponse() never appear.       *)
C25_UsbNeverConnects ==
    /\ (ConnectFromDisconnected /\ UsbOutcome) =>
          /\ ~ret
          /\ m_lastError # << >>
          /\ ~m_isConnected
          /\ m_serialFd = Invalid
    /\ m_isConnected => m_connectionType = BLUETOOTH
    /\ m_lastError \notin UsbBranchErrors

\* the enumeration succeeded and connect() still returned false
C25_Witness ==
    ConnectFromDisconnected /\ UsbOutcome /\ ~ret /\ ~m_isConnected
    /\ \E i \in At(trace, {"SetupDiGetClassDevs"}) : trace[i][2] # Invalid

(* C26: a receiveResponse() on a connected object issues one read and      *)
(* returns at most BufferSize bytes, which are the front of what was        *)
(* pending; what was pending behind them is still pending, in order, after  *)
(* the call.                                                               *)
C26_AtMostOneBuffer ==
    [][ (op' = "receiveResponse" /\ m_isConnected) =>
            /\ Cardinality(At(trace', ReadCalls)) = 1
            /\ Len(resp') <= BufferSize
            /\ Len(resp') <= Len(rx)
            /\ resp' = SubSeq(rx, 1, Len(resp'))
            /\ rx' = SubSeq(rx, Len(resp') + 1, Len(rx)) ]_vars

\* a full buffer has been returned and one more byte is still pending
C26_Witness ==
    op = "receiveResponse" /\ m_isConnected /\ Len(resp) = BufferSize /\ Len(rx) = 1

=============================================================================
